---- MODULE Spec2Model ----
(***************************************************************************)
(* BookService: the in-memory book catalog of book_service.py.             *)
(*                                                                         *)
(* A Python str is modelled as the sequence of its code points, so that    *)
(* strip(), lower(), the substring test `in`, str() and int() are computed *)
(* as Python computes them.  A Python value that may be passed where a     *)
(* string is expected is a record [type, val].                             *)
(***************************************************************************)
EXTENDS Integers, Sequences, FiniteSets, TLC

VARIABLES books, _next_id, issued, call, ret, pc, local, lock

vars == <<books, _next_id, issued, call, ret, pc, local, lock>>

\* the state of the threads that call create_book concurrently (SpecThreads):
\* where each thread is in create_book, what it holds in its local variables,
\* and the lock ("none" for the service as it is written, which has no lock)
threads == <<pc, local, lock>>

(***************************************************************************)
(* Bounds.                                                                 *)
(***************************************************************************)
\* create_book succeeds only while _next_id <= MaxId
MaxId == 3

\* the number of books created before the listings of SpecSort
SortCreated == 10

(***************************************************************************)
(* Conversions between int and str, on sequences of code points.          *)
(***************************************************************************)
\* str(n) for n >= 0: the decimal digits of n
RECURSIVE str(_)
str(n) == IF n < 10 THEN <<48 + n>> ELSE Append(str(n \div 10), 48 + (n % 10))

\* int(s) for a string of decimal digits
RECURSIVE int(_)
int(s) ==
    IF Len(s) = 1 THEN s[1] - 48
    ELSE 10 * int(SubSeq(s, 1, Len(s) - 1)) + (s[Len(s)] - 48)

(***************************************************************************)
(* Python values.                                                          *)
(***************************************************************************)
PyStr(s) == [type |-> "str", val |-> s]
PyInt(n) == [type |-> "int", val |-> n]
PyNone == [type |-> "NoneType", val |-> 0]
PyList == [type |-> "list", val |-> 0]
PyDict == [type |-> "dict", val |-> 0]
PyBool(b) == [type |-> "bool", val |-> b]

\* an equality that converts an integer to its numeral before comparing
PyEq_coerce(a, b) ==
    IF a.type = "str" /\ b.type = "int" /\ b.val >= 0 THEN a.val = str(b.val)
    ELSE a.type = b.type /\ a.val = b.val

\* a == b for the values above: values of different types are never equal
PyEq(a, b) == a.type = b.type /\ a.val = b.val

\* a truth test that only takes the empty string for false
Truthy_nonempty(v) == ~(v.type = "str" /\ v.val = <<>>)

\* bool(v): None, "", 0, [] and {} are falsy
Truthy(v) ==
    CASE v.type = "str" -> v.val # <<>>
      [] v.type = "int" -> v.val # 0
      [] v.type = "bool" -> v.val
      [] OTHER -> FALSE

(***************************************************************************)
(* str methods, on sequences of code points.                               *)
(***************************************************************************)
\* the characters str.strip() removes (ASCII white space)
IsSpace(c) == c \in {9, 10, 11, 12, 13, 28, 29, 30, 31, 32}

RECURSIVE lstrip(_)
lstrip(s) == IF s # <<>> /\ IsSpace(Head(s)) THEN lstrip(Tail(s)) ELSE s

RECURSIVE rstrip(_)
rstrip(s) ==
    IF s # <<>> /\ IsSpace(s[Len(s)]) THEN rstrip(SubSeq(s, 1, Len(s) - 1)) ELSE s

\* a strip that forgets the leading white space
strip_right(s) == rstrip(s)

\* a strip that forgets the trailing white space
strip_left(s) == lstrip(s)

strip(s) == rstrip(lstrip(s))

\* str.lower() on ASCII and Latin-1 letters
lowerChar(c) ==
    IF (c >= 65 /\ c <= 90) \/ (c >= 192 /\ c <= 222 /\ c # 215) THEN c + 32 ELSE c

lower(s) == [i \in 1..Len(s) |-> lowerChar(s[i])]

startswith(s, prefix) ==
    Len(prefix) <= Len(s) /\ SubSeq(s, 1, Len(prefix)) = prefix

\* sub in s
RECURSIVE contains(_, _)
contains(sub, s) ==
    IF startswith(s, sub) THEN TRUE
    ELSE IF s = <<>> THEN FALSE
    ELSE contains(sub, Tail(s))

(***************************************************************************)
(* list.sort(key=sort_key, reverse=not ascending)                          *)
(***************************************************************************)
\* the field names "id", "title", "author"
FieldId == <<105, 100>>
FieldTitle == <<116, 105, 116, 108, 101>>
FieldAuthor == <<97, 117, 116, 104, 111, 114>>

valid_fields == {FieldId, FieldTitle, FieldAuthor}

\* book[name]
field(book, name) ==
    CASE name = FieldId -> book.id
      [] name = FieldTitle -> book.title
      [] name = FieldAuthor -> book.author

\* a < b on strings: lexicographic by code point
RECURSIVE StrLess(_, _)
StrLess(a, b) ==
    IF b = <<>> THEN FALSE
    ELSE IF a = <<>> THEN TRUE
    ELSE IF Head(a) # Head(b) THEN Head(a) < Head(b)
    ELSE StrLess(Tail(a), Tail(b))

\* a key that takes the id as the string it is
sort_key_less_text(x, y, sort_by) ==
    StrLess(lower(field(x, sort_by)), lower(field(y, sort_by)))

\* sort_key(x) < sort_key(y): int(id) for "id", value.lower() otherwise
sort_key_less(x, y, sort_by) ==
    IF sort_by = FieldId THEN int(x.id) < int(y.id)
    ELSE StrLess(lower(field(x, sort_by)), lower(field(y, sort_by)))

\* insert x into the sorted list l behind every element whose key is not
\* greater than the key of x
RECURSIVE insort(_, _, _)
insort(l, x, sort_by) ==
    IF l = <<>> THEN <<x>>
    ELSE IF sort_key_less(x, Head(l), sort_by) THEN <<x>> \o l
    ELSE <<Head(l)>> \o insort(Tail(l), x, sort_by)

\* the stable ascending sort of l
RECURSIVE sorted(_, _)
sorted(l, sort_by) ==
    IF l = <<>> THEN <<>>
    ELSE insort(sorted(SubSeq(l, 1, Len(l) - 1), sort_by), l[Len(l)], sort_by)

reversed(l) == [i \in 1..Len(l) |-> l[Len(l) + 1 - i]]

\* a descending sort made by reversing the ascending one
list_sort_flip(l, sort_by, reverse) ==
    IF reverse THEN reversed(sorted(l, sort_by)) ELSE sorted(l, sort_by)

\* a sort that ignores reverse
list_sort_up(l, sort_by, reverse) == sorted(l, sort_by)

\* list.sort keeps the order of equal keys also when reverse is set: it
\* reverses the list, sorts it stably and reverses the result
list_sort(l, sort_by, reverse) ==
    IF reverse THEN reversed(sorted(reversed(l), sort_by)) ELSE sorted(l, sort_by)

(***************************************************************************)
(* BookService                                                             *)
(***************************************************************************)
NoCall == [op |-> "__init__"]

\* the threads of SpecThreads, and the local variables of a thread that is
\* not in create_book
Threads == {"t1", "t2"}
NoLocal == [book |-> PyNone, loaded |-> 0]
ThreadsIdle ==
    /\ pc = [t \in Threads |-> "idle"]
    /\ local = [t \in Threads |-> NoLocal]
Returned(v) == [raised |-> "none", value |-> v]
Raised(e) == [raised |-> e, value |-> PyNone]

\* __init__
Init ==
    /\ books = <<>>
    /\ _next_id = 1
    /\ issued = {}
    /\ call = NoCall
    /\ ret = Returned(PyNone)
    /\ ThreadsIdle
    /\ lock = "none"

\* an id taken from the number of books instead of from the counter
new_id_reuse == str(Len(books) + 1)

\* the id of the book create_book builds
new_id == str(_next_id)

\* a validation that rejects only when both values are empty
invalid_and(title, author) == title = <<>> /\ author = <<>>

\* not title or not author, on the stripped values
invalid(title, author) == title = <<>> \/ author = <<>>

\* an insertion at the front of the list
prepended(l, book) == <<book>> \o l

\* self.books.append(book), the list it leaves
appended(l, book) == Append(l, book)

\* create_book(title, author)
CreateBook(title, author) ==
    /\ call = NoCall
    /\ call' = [op |-> "create_book", title |-> title, author |-> author]
    /\ UNCHANGED threads
    /\ IF title.type # "str" \/ author.type # "str"
       THEN \* title.strip() / author.strip() on a value that has no strip
            /\ ret' = Raised("AttributeError")
            /\ UNCHANGED <<books, _next_id, issued>>
       ELSE LET t == strip(title.val)
                a == strip(author.val)
            IN  IF invalid(t, a)
                THEN /\ ret' = Raised("ValueError")
                     /\ UNCHANGED <<books, _next_id, issued>>
                ELSE LET book == [id |-> new_id, title |-> t, author |-> a]
                     IN  /\ _next_id <= MaxId
                         /\ books' = appended(books, book)
                         /\ _next_id' = _next_id + 1
                         /\ issued' = issued \cup {book.id}
                         /\ ret' = Returned(book)

\* the index of the first book whose id equals book_id, 0 if there is none
RECURSIVE find(_, _, _)
find(l, book_id, i) ==
    IF i > Len(l) THEN 0
    ELSE IF PyEq(PyStr(l[i].id), book_id) THEN i
    ELSE find(l, book_id, i + 1)

\* what get_book(book_id) returns on the list l of books
get_book(l, book_id) ==
    LET i == find(l, book_id, 1)
    IN  IF i = 0 THEN PyNone ELSE l[i]

\* get_book(book_id)
GetBook(book_id) ==
    /\ call = NoCall
    /\ call' = [op |-> "get_book", book_id |-> book_id]
    /\ ret' = Returned(get_book(books, book_id))
    /\ UNCHANGED <<books, _next_id, issued, threads>>

\* a pop without index: removes the last element
pop_last(l, i) == SubSeq(l, 1, Len(l) - 1)

\* a removal of the whole tail from i on
pop_rest(l, i) == SubSeq(l, 1, i - 1)

\* list.pop(i), the list that is left (i counted from 1)
pop(l, i) == SubSeq(l, 1, i - 1) \o SubSeq(l, i + 1, Len(l))

\* delete_book(book_id)
DeleteBook(book_id) ==
    /\ call = NoCall
    /\ call' = [op |-> "delete_book", book_id |-> book_id]
    /\ LET i == find(books, book_id, 1)
       IN  IF i = 0
           THEN /\ ret' = Returned(PyBool(FALSE))
                /\ UNCHANGED books
           ELSE /\ ret' = Returned(PyBool(TRUE))
                /\ books' = pop(books, i)
    /\ UNCHANGED <<_next_id, issued, threads>>

\* the condition of the comprehension that filters by search
matches(book, search_lower) ==
    contains(search_lower, lower(book.title)) \/ contains(search_lower, lower(book.author))

\* a filter that compares with the search term as it was typed
filter_case(result, search) ==
    LET Test(book) == matches(book, search)
    IN  SelectSeq(result, Test)

\* [book for book in result if ...]
filter(result, search) ==
    LET search_lower == lower(search)
        Test(book) == matches(book, search_lower)
    IN  SelectSeq(result, Test)

\* a validation that runs in the sort key, so only when there is a record
sort_books_lazy(result, sort_by, ascending) ==
    IF result = <<>> THEN Returned(result)
    ELSE IF sort_by.type # "str" \/ sort_by.val \notin valid_fields
    THEN Raised("ValueError")
    ELSE Returned(list_sort(result, sort_by.val, ~ascending))

\* the body of "if sort_by:": the check against valid_fields, then the sort
sort_books(result, sort_by, ascending) ==
    IF sort_by.type # "str" \/ sort_by.val \notin valid_fields
    THEN Raised("ValueError")
    ELSE Returned(list_sort(result, sort_by.val, ~ascending))

\* what list_books(search, sort_by, ascending) returns or raises on the list l
list_books(l, search, sort_by, ascending) ==
    IF Truthy(search) /\ search.type # "str"
    THEN \* search.lower() on a value that has no lower
         Raised("AttributeError")
    ELSE LET result == IF Truthy(search) THEN filter(l, search.val) ELSE l
         IN  IF Truthy(sort_by) THEN sort_books(result, sort_by, ascending)
             ELSE Returned(result)

\* a list_books that sorts self.books itself instead of a copy
ListBooks_inplace(search, sort_by, ascending) ==
    /\ call = NoCall
    /\ call' = [op |-> "list_books", search |-> search, sort_by |-> sort_by,
                ascending |-> ascending]
    /\ ret' = list_books(books, search, sort_by, ascending)
    /\ books' = IF ret'.raised = "none" /\ ~Truthy(search) THEN ret'.value ELSE books
    /\ UNCHANGED <<_next_id, issued, threads>>

\* list_books(search, sort_by, ascending)
ListBooks(search, sort_by, ascending) ==
    /\ call = NoCall
    /\ call' = [op |-> "list_books", search |-> search, sort_by |-> sort_by,
                ascending |-> ascending]
    /\ ret' = list_books(books, search, sort_by, ascending)
    /\ UNCHANGED <<books, _next_id, issued, threads>>

(***************************************************************************)
(* The arguments the operations are called with.                           *)
(***************************************************************************)
TheGreatGatsby == <<84, 104, 101, 32, 71, 114, 101, 97, 116, 32, 71, 97, 116, 115, 98, 121>>
PaddedGatsby == <<32, 32, 103, 97, 116, 115, 98, 121, 32, 32>>
Blank3 == <<32, 32, 32>>
FScottFitzgerald ==
    <<70, 46, 32, 83, 99, 111, 116, 116, 32, 70, 105, 116, 122, 103, 101, 114, 97, 108, 100>>

\* "", "   ", "  The Great Gatsby  ", "aB", "\tAb\n", None, 123, []
TitleArgs ==
    { PyStr(<<>>), PyStr(Blank3), PyStr(<<32, 32>> \o TheGreatGatsby \o <<32, 32>>),
      PyStr(<<97, 66>>), PyStr(<<9, 65, 98, 10>>), PyNone, PyInt(123), PyList }

\* "", " \t", "F. Scott Fitzgerald", " bA ", None, 456, {}
AuthorArgs ==
    { PyStr(<<>>), PyStr(<<32, 9>>), PyStr(FScottFitzgerald), PyStr(<<32, 98, 65, 32>>),
      PyNone, PyInt(456), PyDict }

\* "0" .. str(MaxId + 1), "-1", "", "   ", " 1", None, 1, 123, [], {}
IdArgs ==
    { PyStr(str(n)) : n \in 0..(MaxId + 1) } \cup
    { PyStr(<<45, 49>>), PyStr(<<>>), PyStr(Blank3), PyStr(<<32, 49>>),
      PyNone, PyInt(1), PyInt(123), PyList, PyDict }

\* None, "", "   ", " ", "  gatsby  ", "GATSBY", "aB", "SCOTT", "zz", 123
SearchArgs ==
    { PyNone, PyStr(<<>>), PyStr(Blank3), PyStr(<<32>>), PyStr(PaddedGatsby),
      PyStr(<<71, 65, 84, 83, 66, 89>>), PyStr(<<97, 66>>), PyStr(<<83, 67, 79, 84, 84>>),
      PyStr(<<122, 122>>), PyInt(123) }

\* None, "", "id", "title", "author", "bogus", 123
SortArgs ==
    { PyNone, PyStr(<<>>), PyStr(FieldId), PyStr(FieldTitle), PyStr(FieldAuthor),
      PyStr(<<98, 111, 103, 117, 115>>), PyInt(123) }

\* the caller takes the result of the call; every operation runs to completion
\* before the next one is called
Return ==
    /\ call # NoCall
    /\ call' = NoCall
    /\ ret' = Returned(PyNone)
    /\ UNCHANGED <<books, _next_id, issued, threads>>

Next ==
    \/ \E title \in TitleArgs, author \in AuthorArgs : CreateBook(title, author)
    \/ \E book_id \in IdArgs : GetBook(book_id)
    \/ \E book_id \in IdArgs : DeleteBook(book_id)
    \/ \E search \in SearchArgs, sort_by \in SortArgs, ascending \in BOOLEAN :
           ListBooks(search, sort_by, ascending)
    \/ Return

Spec == Init /\ [][Next]_vars

(***************************************************************************)
(* create_book called by two threads at once.  The statements of           *)
(* create_book that touch self are separate steps: the read of _next_id    *)
(* for the id of the record, the append, and the read and the write of     *)
(* "self._next_id += 1".  The service as it is written has no lock         *)
(* (lock = "none"); with a lock (lock = "free" at the start) create_book   *)
(* runs from its first statement to its return holding it.                 *)
(***************************************************************************)
\* the lock is taken on entry, if the service has one
acquire(t) ==
    IF lock = "none" THEN lock' = lock ELSE lock = "free" /\ lock' = t

\* the lock is given back on return
release(t) == lock' = IF lock = "none" THEN "none" ELSE "free"

\* strip, validate and build the book with the id str(self._next_id); a call
\* that raises ValueError leaves everything as it was
T_Build(t, title, author) ==
    /\ pc[t] = "idle"
    /\ LET ti == strip(title.val)
           au == strip(author.val)
       IN  IF invalid(ti, au)
           THEN UNCHANGED <<pc, local, lock>>
           ELSE /\ _next_id <= MaxId
                /\ acquire(t)
                /\ local' = [local EXCEPT ![t].book =
                                 [id |-> new_id, title |-> ti, author |-> au]]
                /\ pc' = [pc EXCEPT ![t] = "append"]
    /\ UNCHANGED <<books, _next_id, issued, call, ret>>

\* self.books.append(book)
T_Append(t) ==
    /\ pc[t] = "append"
    /\ books' = appended(books, local[t].book)
    /\ issued' = issued \cup {local[t].book.id}
    /\ pc' = [pc EXCEPT ![t] = "load"]
    /\ UNCHANGED <<_next_id, call, ret, local, lock>>

\* self._next_id += 1, the read
T_Load(t) ==
    /\ pc[t] = "load"
    /\ local' = [local EXCEPT ![t].loaded = _next_id]
    /\ pc' = [pc EXCEPT ![t] = "store"]
    /\ UNCHANGED <<books, _next_id, issued, call, ret, lock>>

\* a write that stores the value read, without the increment
T_Store_same(t) ==
    /\ pc[t] = "store"
    /\ _next_id' = local[t].loaded
    /\ local' = [local EXCEPT ![t] = NoLocal]
    /\ pc' = [pc EXCEPT ![t] = "idle"]
    /\ release(t)
    /\ UNCHANGED <<books, issued, call, ret>>

\* self._next_id += 1, the write; return book
T_Store(t) ==
    /\ pc[t] = "store"
    /\ _next_id' = local[t].loaded + 1
    /\ local' = [local EXCEPT ![t] = NoLocal]
    /\ pc' = [pc EXCEPT ![t] = "idle"]
    /\ release(t)
    /\ UNCHANGED <<books, issued, call, ret>>

\* "  ", "aB"
ThreadTitleArgs == { PyStr(<<32, 32>>), PyStr(<<97, 66>>) }

\* " bA "
ThreadAuthorArgs == { PyStr(<<32, 98, 65, 32>>) }

\* the service without lock, as written, or with a lock around create_book
InitThreads ==
    /\ books = <<>>
    /\ _next_id = 1
    /\ issued = {}
    /\ call = NoCall
    /\ ret = Returned(PyNone)
    /\ ThreadsIdle
    /\ lock \in {"none", "free"}

NextThreads ==
    \/ \E t \in Threads, title \in ThreadTitleArgs, author \in ThreadAuthorArgs :
           T_Build(t, title, author)
    \/ \E t \in Threads : T_Append(t)
    \/ \E t \in Threads : T_Load(t)
    \/ \E t \in Threads : T_Store(t)

SpecThreads == InitThreads /\ [][NextThreads]_vars

(***************************************************************************)
(* The refactored BookService of 02_11_CodeProject_refactor/endState:      *)
(* list_books hands validation and sorting to the helper _sort_books.      *)
(* Its __init__, create_book, get_book and delete_book are, statement for  *)
(* statement, those of the original, so Init, CreateBook, GetBook and      *)
(* DeleteBook stand for them as well.                                      *)
(***************************************************************************)
\* a helper that is called without the direction and so sorts ascending
_sort_books_ascending(bks, sort_by, ascending) ==
    IF sort_by.type # "str" \/ sort_by.val \notin valid_fields
    THEN Raised("ValueError")
    ELSE Returned(list_sort(bks, sort_by.val, FALSE))

\* _sort_books(books, sort_by, ascending): sorts a copy of books
_sort_books(bks, sort_by, ascending) ==
    IF sort_by.type # "str" \/ sort_by.val \notin valid_fields
    THEN Raised("ValueError")
    ELSE LET sorted_books == bks
         IN  Returned(list_sort(sorted_books, sort_by.val, ~ascending))

\* what the refactored list_books returns or raises on the list l
list_books_refactored(l, search, sort_by, ascending) ==
    IF Truthy(search) /\ search.type # "str"
    THEN Raised("AttributeError")
    ELSE LET result == IF Truthy(search) THEN filter(l, search.val) ELSE l
         IN  IF Truthy(sort_by) THEN _sort_books(result, sort_by, ascending)
             ELSE Returned(result)

\* the refactored list_books(search, sort_by, ascending)
ListBooksRefactored(search, sort_by, ascending) ==
    /\ call = NoCall
    /\ call' = [op |-> "list_books", search |-> search, sort_by |-> sort_by,
                ascending |-> ascending]
    /\ ret' = list_books_refactored(books, search, sort_by, ascending)
    /\ UNCHANGED <<books, _next_id, issued, threads>>

NextRefactored ==
    \/ \E title \in TitleArgs, author \in AuthorArgs : CreateBook(title, author)
    \/ \E book_id \in IdArgs : GetBook(book_id)
    \/ \E book_id \in IdArgs : DeleteBook(book_id)
    \/ \E search \in SearchArgs, sort_by \in SortArgs, ascending \in BOOLEAN :
           ListBooksRefactored(search, sort_by, ascending)
    \/ Return

SpecRefactored == Init /\ [][NextRefactored]_vars

(***************************************************************************)
(* The service after SortCreated books were created and all but some of   *)
(* the books "2", str(SortCreated - 1) and str(SortCreated) were deleted:  *)
(* the catalogs in which the numeric order of the ids is not the order of  *)
(* the strings.                                                            *)
(***************************************************************************)
\* the titles and authors create_book stores for TitleArgs and AuthorArgs
StoredTitles == { strip(v.val) : v \in { w \in TitleArgs : w.type = "str" } } \ {<<>>}
StoredAuthors == { strip(v.val) : v \in { w \in AuthorArgs : w.type = "str" } } \ {<<>>}

\* the records create_book can have built with the counter at n
RecordsOf(n) ==
    { [id |-> str(n), title |-> t, author |-> a] : t \in StoredTitles, a \in StoredAuthors }

SortIds == <<2, SortCreated - 1, SortCreated>>

\* the lists of books with some of the ids, in the order of their creation
RECURSIVE CatalogsOf(_)
CatalogsOf(ids) ==
    IF ids = <<>> THEN {<<>>}
    ELSE LET rest == CatalogsOf(Tail(ids))
         IN  rest \cup { <<r>> \o c : r \in RecordsOf(Head(ids)), c \in rest }

InitSort ==
    /\ books \in CatalogsOf(SortIds)
    /\ _next_id = SortCreated + 1
    /\ issued = { str(n) : n \in 1..SortCreated }
    /\ call = NoCall
    /\ ret = Returned(PyNone)
    /\ ThreadsIdle
    /\ lock = "none"

SpecSort == InitSort /\ [][Next]_vars

(***************************************************************************)
(* Properties.  call and ret hold the last call and its outcome, so a      *)
(* formula on call' and ret' speaks about the step that made the call.     *)
(***************************************************************************)
IdsOf(l) == { l[i].id : i \in 1..Len(l) }

CreateOk == call.op = "create_book" /\ ret.raised = "none"

\* s is empty or consists of white space only
IsBlank(s) == \A i \in 1..Len(s) : IsSpace(s[i])

\* s is a decimal numeral without leading zero
IsNumeral(s) ==
    /\ s # <<>>
    /\ \A i \in 1..Len(s) : s[i] >= 48 /\ s[i] <= 57
    /\ Len(s) > 1 => s[1] # 48

\* out is raw without its leading and trailing white space
Trimmed(raw, out) ==
    \E i, j \in 1..Len(raw) :
        /\ i <= j
        /\ out = SubSeq(raw, i, j)
        /\ ~IsSpace(raw[i]) /\ ~IsSpace(raw[j])
        /\ \A k \in 1..(i - 1) : IsSpace(raw[k])
        /\ \A k \in (j + 1)..Len(raw) : IsSpace(raw[k])

UniqueIds ==
    /\ \A i, j \in 1..Len(books) : i # j => books[i].id # books[j].id
    /\ IdsOf(books) \subseteq issued
    /\ \A id \in issued : int(id) < _next_id

FreshId ==
    (CreateOk)' =>
        /\ IsNumeral(ret'.value.id)
        /\ int(ret'.value.id) = Cardinality(issued) + 1
        /\ ret'.value.id \notin issued
        /\ \A id \in issued : int(id) < int(ret'.value.id)

\* C1: the ids in the catalog are pairwise distinct and the counter is
\* greater than every id ever issued; every successful create_book returns
\* the next numeral "1", "2", ..., greater than every id issued before it and
\* never an id that was issued before, also when its record was deleted.
C1_UniqueIncreasingIds == []UniqueIds /\ [][FreshId]_vars

\* a book was created after an earlier one had been deleted
C1_Witness == CreateOk /\ Len(books) >= 1 /\ Cardinality(issued) > Len(books)

BlankCreate ==
    /\ call.op = "create_book"
    /\ call.title.type = "str" /\ call.author.type = "str"
    /\ IsBlank(call.title.val) \/ IsBlank(call.author.val)

\* C2: create_book with an empty or white-space-only title or author (both
\* of them strings) raises ValueError and leaves the catalog and the counter as they were; a
\* successful create_book takes its id from the counter, so the failed call
\* consumed no id.
C2_BlankRejected ==
    [][ /\ (BlankCreate)' =>
              ret'.raised = "ValueError" /\ books' = books /\ _next_id' = _next_id
        /\ (CreateOk)' => int(ret'.value.id) = _next_id ]_vars

\* a create_book with a blank author was refused on a catalog that has books
C2_Witness ==
    /\ BlankCreate /\ ~IsBlank(call.title.val)
    /\ ret.raised = "ValueError" /\ Len(books) >= 1

NonStringCreate ==
    /\ call.op = "create_book"
    /\ call.title.type # "str" \/ call.author.type # "str"

\* C3: create_book with a title or author that is not a string raises
\* TypeError or ValueError and adds no record.
C3_NonStringRejected ==
    [][ (NonStringCreate)' =>
            ret'.raised \in {"TypeError", "ValueError"} /\ books' = books ]_vars

\* C4: right after a successful create_book(t, a) that returned r,
\* get_book(r.id) is r, and the title and author of r are t and a without
\* their leading and trailing white space.
C4_RoundTrip ==
    CreateOk =>
        /\ get_book(books, PyStr(ret.value.id)) = ret.value
        /\ Trimmed(call.title.val, ret.value.title)
        /\ Trimmed(call.author.val, ret.value.author)

\* a padded title was stored after other books were created and deleted
C4_Witness ==
    /\ CreateOk /\ Len(books) >= 2 /\ Cardinality(issued) > Len(books)
    /\ call.title.val # ret.value.title /\ call.author.val # ret.value.author


DeleteCall == call.op = "delete_book"
ListCall == call.op = "list_books"
True == PyBool(TRUE)
False == PyBool(FALSE)

\* the id of the call is a string and the id of a book in l
InCatalog(l, book_id) == book_id.type = "str" /\ book_id.val \in IdsOf(l)

\* C5: delete_book of an id that is in the catalog returns True and removes the
\* record; delete_book of an id that was issued and is no longer in the
\* catalog returns False and changes neither catalog nor counter; an id that
\* was deleted never comes back, whatever is created afterwards.
C5_DeleteIdempotent ==
    [][ /\ (DeleteCall)' /\ InCatalog(books, call'.book_id) =>
              ret' = Returned(True) /\ ~InCatalog(books', call'.book_id)
        /\ (DeleteCall)' /\ call'.book_id.type = "str"
              /\ call'.book_id.val \in issued \ IdsOf(books) =>
              ret' = Returned(False) /\ books' = books /\ _next_id' = _next_id
        /\ \A id \in issued \ IdsOf(books) : id \notin IdsOf(books') ]_vars

\* a second delete of an id, after a book with a greater id was created
C5_Witness ==
    /\ DeleteCall /\ ret.value = False
    /\ call.book_id.type = "str" /\ call.book_id.val \in issued
    /\ \E i \in 1..Len(books) : int(books[i].id) > int(call.book_id.val)

\* C6: a delete_book that returns True removes exactly the record with that
\* id: the catalog is one shorter, the other records stay as they are and in
\* their order, get_book of every other id returns what it returned before,
\* and the counter is unchanged.
C6_DeleteFrame ==
    [][ (DeleteCall)' /\ ret'.value = True =>
          /\ Len(books') = Len(books) - 1
          /\ \E i \in 1..Len(books) :
                /\ PyEq(PyStr(books[i].id), call'.book_id)
                /\ books' = [j \in 1..(Len(books) - 1) |->
                                IF j < i THEN books[j] ELSE books[j + 1]]
          /\ ~InCatalog(books', call'.book_id)
          /\ \A other \in IdArgs :
                ~PyEq(other, call'.book_id) =>
                    get_book(books', other) = get_book(books, other)
          /\ _next_id' = _next_id ]_vars

\* the record deleted stood between two others
C6_Witness ==
    /\ DeleteCall /\ ret.value = True /\ Len(books) = 2
    /\ int(books[1].id) < int(call.book_id.val)
    /\ int(call.book_id.val) < int(books[2].id)

\* C7: get_book and delete_book never raise; for an id that is not in the
\* catalog get_book returns None and delete_book returns False, and the
\* catalog is unchanged; after a delete_book(id) that returned True,
\* get_book(id) returns None.
C7_AbsentIsNoError ==
    [][ /\ (call'.op \in {"get_book", "delete_book"}) =>
              ret'.raised = "none"
        /\ (call'.op = "get_book") =>
              /\ books' = books
              /\ ~InCatalog(books, call'.book_id) => ret'.value = PyNone
        /\ (DeleteCall)' /\ ~InCatalog(books, call'.book_id) =>
              ret'.value = False /\ books' = books
        /\ (DeleteCall)' /\ ret'.value = True =>
              get_book(books', call'.book_id) = PyNone ]_vars

\* delete_book(1), with the integer 1, on a catalog that holds the id "1"
C7_Witness ==
    /\ DeleteCall /\ PyEq(call.book_id, PyInt(1))
    /\ <<49>> \in IdsOf(books) /\ ret.value = False

NoSearch == PyEq(call.search, PyNone) \/ PyEq(call.search, PyStr(<<>>))
NoSort == PyEq(call.sort_by, PyNone)

\* C8: list_books without search, or with the search "", and without sort_by
\* returns the records of the catalog, each once, in the order of the catalog
\* (the empty list on the empty catalog).
C8_ListAll ==
    ListCall /\ NoSearch /\ NoSort =>
        /\ ret.raised = "none"
        /\ Len(ret.value) = Len(books)
        /\ \A i \in 1..Len(books) : ret.value[i] = books[i]

\* list_books(search="") on a catalog of two books, after a deletion
C8_Witness ==
    /\ ListCall /\ PyEq(call.search, PyStr(<<>>)) /\ NoSort
    /\ Len(books) = 2 /\ Cardinality(issued) > 2 /\ Len(ret.value) = 2

\* sub occurs in s
IsSubstring(sub, s) ==
    \E i \in 0..(Len(s) - Len(sub)) : \A k \in 1..Len(sub) : s[i + k] = sub[k]

\* the record is found by the search term, whatever the case of the letters
Hit(book, search) ==
    \/ IsSubstring(lower(search), lower(book.title))
    \/ IsSubstring(lower(search), lower(book.author))

\* the position of a record in the catalog
Pos(book) == CHOOSE j \in 1..Len(books) : books[j] = book

C10_PaddedSearch ==
    ListCall /\ NoSort =>
        /\ PyEq(call.search, PyStr(PaddedGatsby)) =>
              /\ ret.raised = "none"
              /\ \A j \in 1..Len(books) :
                    books[j].title = TheGreatGatsby =>
                        \E i \in 1..Len(ret.value) : ret.value[i] = books[j]
        /\ PyEq(call.search, PyStr(Blank3)) =>
              ret.raised = "none" /\ ret.value = <<>>

\* the call was made with no search or with a string as search
SearchIsText == call.search.type \in {"NoneType", "str"}

\* a sort_by that is given and is none of "id", "title", "author"
InvalidSort(v) ==
    \/ v.type = "str" /\ v.val # <<>> /\ v.val \notin {FieldId, FieldTitle, FieldAuthor}
    \/ v.type = "int" /\ v.val # 0

\* C11: list_books with a sort_by that is none of "id", "title", "author"
\* (such as "bogus" or 123) raises ValueError, with ascending true and false,
\* on the empty catalog and when the search matches nothing as well, and
\* leaves the catalog and the counter unchanged.
C11_InvalidSortRejected ==
    [][ (ListCall /\ SearchIsText /\ InvalidSort(call.sort_by))' =>
            ret'.raised = "ValueError" /\ books' = books /\ _next_id' = _next_id ]_vars

\* a descending list_books(search="zz", sort_by="bogus") on a catalog with
\* books, none of which the search finds
C11_Witness ==
    /\ ListCall /\ PyEq(call.search, PyStr(<<122, 122>>))
    /\ PyEq(call.sort_by, PyStr(<<98, 111, 103, 117, 115>>)) /\ ~call.ascending
    /\ Len(books) >= 1 /\ ret.raised = "ValueError"

\* C12: list_books with sort_by "" or None raises ValueError.
C12_EmptySortRejected ==
    ListCall /\ SearchIsText
        /\ (PyEq(call.sort_by, PyStr(<<>>)) \/ PyEq(call.sort_by, PyNone)) =>
        ret.raised = "ValueError"

\* list_books was called with a valid sort_by
SortCall ==
    /\ ListCall /\ SearchIsText
    /\ call.sort_by.type = "str" /\ call.sort_by.val \in {FieldId, FieldTitle, FieldAuthor}

\* the record passes the filter of the call
Filtered(book) ==
    \/ call.search.type = "NoneType"
    \/ call.search.val = <<>>
    \/ Hit(book, call.search.val)

\* a <= b in the order of strings
LexLeq(a, b) ==
    \/ Len(a) <= Len(b) /\ \A k \in 1..Len(a) : a[k] = b[k]
    \/ \E k \in 1..Len(a) :
          /\ k <= Len(b) /\ a[k] < b[k]
          /\ \A m \in 1..(k - 1) : a[m] = b[m]

\* the title or the author, as sort_by names it
TextOf(book, sort_by) == IF sort_by = FieldTitle THEN book.title ELSE book.author

\* the sort key of x is at most that of y: the number the id stands for, or the
\* lowercased title or author
KeyLeq(x, y, sort_by) ==
    IF sort_by = FieldId THEN int(x.id) <= int(y.id)
    ELSE LexLeq(lower(TextOf(x, sort_by)), lower(TextOf(y, sort_by)))

\* C13: list_books with a valid sort_by returns a permutation of the filtered
\* records in the order of the sort key (the number for "id", the lowercased
\* value for "title" and "author"): keys do not decrease when ascending and
\* do not increase when descending.
C13_SortedByKey ==
    SortCall =>
        /\ ret.raised = "none"
        /\ \A j \in 1..Len(books) :
              Filtered(books[j]) <=> \E i \in 1..Len(ret.value) : ret.value[i] = books[j]
        /\ \A i \in 1..Len(ret.value) : \E j \in 1..Len(books) : books[j] = ret.value[i]
        /\ \A i1, i2 \in 1..Len(ret.value) : i1 # i2 => ret.value[i1] # ret.value[i2]
        /\ \A i \in 1..(Len(ret.value) - 1) :
              IF call.ascending
              THEN KeyLeq(ret.value[i], ret.value[i + 1], call.sort_by.val)
              ELSE KeyLeq(ret.value[i + 1], ret.value[i], call.sort_by.val)

\* an ascending sort by id put the id "2" before the id "10"
C13_Witness ==
    /\ SortCall /\ call.sort_by.val = FieldId /\ call.ascending
    /\ \E i \in 1..(Len(ret.value) - 1) :
          /\ ret.value[i].id = <<50>>
          /\ Len(ret.value[i + 1].id) = 2 /\ ret.value[i + 1].id[1] = 49

\* list_books was called with sort_by "title" or "author"
TextSortCall == SortCall /\ call.sort_by.val \in {FieldTitle, FieldAuthor}

\* the two records have the same sort key
SameKey(x, y, sort_by) ==
    IF sort_by = FieldId THEN int(x.id) = int(y.id)
    ELSE lower(TextOf(x, sort_by)) = lower(TextOf(y, sort_by))

\* C14: in a listing sorted by title or author, records whose keys are equal
\* after lowercasing stand in the order of their creation, ascending and
\* descending alike.
C14_StableSort ==
    TextSortCall /\ ret.raised = "none" =>
        \A i1, i2 \in 1..Len(ret.value) :
            i1 < i2 /\ SameKey(ret.value[i1], ret.value[i2], call.sort_by.val) =>
                int(ret.value[i1].id) < int(ret.value[i2].id)

\* a descending sort by title returned two titles that differ in case only
C14_Witness ==
    /\ TextSortCall /\ call.sort_by.val = FieldTitle /\ ~call.ascending
    /\ ret.raised = "none"
    /\ \E i1, i2 \in 1..Len(ret.value) :
          /\ i1 < i2
          /\ ret.value[i1].title # ret.value[i2].title
          /\ SameKey(ret.value[i1], ret.value[i2], FieldTitle)

\* what the call would have returned with ascending=true
AscendingResult == list_books(books, call.search, call.sort_by, TRUE).value

\* no two records of the result have the same sort key
DistinctKeys ==
    \A i1, i2 \in 1..Len(ret.value) :
        i1 # i2 => ~SameKey(ret.value[i1], ret.value[i2], call.sort_by.val)

\* C15, as claimed: the listing with ascending=false is the reverse of the
\* listing with ascending=true.
C15_DescendingIsReverse ==
    SortCall /\ ~call.ascending =>
        ret.raised = "none" /\ ret.value = reversed(AscendingResult)

\* C15, amended: when no two of the filtered records have the same sort key,
\* the listing with ascending=false is the reverse of the listing with
\* ascending=true.
C15_DescendingIsReverseOfDistinct ==
    SortCall /\ ~call.ascending /\ ret.raised = "none" /\ DistinctKeys =>
        ret.value = reversed(AscendingResult)

\* a descending sort by title of records with different titles
C15_Witness ==
    /\ SortCall /\ ~call.ascending /\ call.sort_by.val = FieldTitle
    /\ ret.raised = "none" /\ Len(ret.value) >= 2 /\ DistinctKeys

\* C16: list_books, with whatever search, sort_by and ascending and also when
\* it raises, leaves the list of books and the counter as they were.
C16_ListDoesNotMutate ==
    [][ (ListCall)' => books' = books /\ _next_id' = _next_id ]_vars

\* a sorted listing of the whole catalog that is not in the order of the catalog
C16_Witness ==
    /\ ListCall /\ ret.raised = "none" /\ PyEq(call.search, PyNone)
    /\ Len(ret.value) >= 2 /\ ret.value # books

\* s is not empty and neither begins nor ends with white space
IsTrimmed(s) == s # <<>> /\ ~IsSpace(s[1]) /\ ~IsSpace(s[Len(s)])

AllTrimmed ==
    \A i \in 1..Len(books) : IsTrimmed(books[i].title) /\ IsTrimmed(books[i].author)

\* create_book was called with two strings that are not blank
TextCreate ==
    /\ call.op = "create_book"
    /\ call.title.type = "str" /\ call.author.type = "str"
    /\ ~IsBlank(call.title.val) /\ ~IsBlank(call.author.val)

\* C17: every record of the catalog has a title and an author that are not
\* empty and have no leading or trailing white space; create_book with a
\* title and an author that are not blank adds a record with an id no other
\* record has, also when a record with that title and author exists.
C17_TrimmedFields ==
    /\ []AllTrimmed
    /\ [][ (TextCreate)' =>
              /\ ret'.raised = "none"
              /\ books' = books \o <<ret'.value>>
              /\ ret'.value.id \notin IdsOf(books) ]_vars

\* a second record with the title and author of an earlier one
C17_Witness ==
    /\ CreateOk
    /\ \E i \in 1..(Len(books) - 1) :
          /\ books[i].title = ret.value.title
          /\ books[i].author = ret.value.author
          /\ books[i].id # ret.value.id

\* the records of the catalog stand in the order of the numbers of their ids
IdOrder ==
    \A i, j \in 1..Len(books) : i < j => int(books[i].id) < int(books[j].id)

\* what the call would have returned without sort_by
UnsortedResult == list_books(books, call.search, PyNone, TRUE).value

\* C20: the records of the catalog are in strictly increasing order of the
\* numbers of their ids; so list_books sorted by "id" returns, ascending, what
\* it returns without sort_by and, descending, the reverse of that.
C20_CatalogInIdOrder ==
    /\ IdOrder
    /\ SortCall /\ call.sort_by.val = FieldId =>
          /\ ret.raised = "none"
          /\ ret.value = IF call.ascending THEN UnsortedResult
                         ELSE reversed(UnsortedResult)

\* a descending listing by id of a catalog from which a book was deleted
C20_Witness ==
    /\ SortCall /\ call.sort_by.val = FieldId /\ ~call.ascending
    /\ ret.raised = "none" /\ Len(ret.value) >= 2
    /\ Cardinality(issued) > Len(books)

\* C18: on the same catalog and for every search, sort_by and ascending, the
\* refactored list_books (the list_books of SpecRefactored) returns the
\* sequence, or raises the error, that the original list_books returns or
\* raises, and does not change the catalog.
C18_RefactoredListEquivalent ==
    [][ (ListCall)' =>
          /\ ret' = list_books(books, call'.search, call'.sort_by, call'.ascending)
          /\ books' = books /\ _next_id' = _next_id ]_vars

\* the refactored list_books sorted two found records descending by title
C18_Witness ==
    /\ ListCall /\ PyEq(call.search, PyStr(<<83, 67, 79, 84, 84>>))
    /\ PyEq(call.sort_by, PyStr(FieldTitle)) /\ ~call.ascending
    /\ ret.raised = "none" /\ Len(ret.value) >= 2 /\ Len(books) > Len(ret.value)

\* two records of the catalog have the same id
DuplicateId ==
    \E i, j \in 1..Len(books) : i # j /\ books[i].id = books[j].id

\* C19: with a single lock around the whole of create_book no two records of
\* the catalog have the same id, however the calls of the threads interleave.
\* (That the service without lock reaches a catalog with two records of the
\* same id is what C19_Witness states.)
C19_LockKeepsIdsUnique == lock # "none" => ~DuplicateId

\* without lock: both threads have returned from create_book and the catalog
\* holds two records with the same id
C19_Witness ==
    /\ lock = "none" /\ DuplicateId
    /\ \A t \in Threads : pc[t] = "idle"

====
